---- MODULE Spec2Model ----
(***************************************************************************)
(* fetch-media: the media-type dispatch of fetchMedia / fetchMediaWrapped.  *)
(*                                                                         *)
(* One call is a sequence of run-to-completion segments separated by the   *)
(* awaits of the source: the transport call and the body read.  Each       *)
(* segment is one action.  Strings are TLA+ strings; the string tests      *)
(* (startsWith, includes, the two regular expressions) are computed on     *)
(* them character by character.                                            *)
(***************************************************************************)
EXTENDS Integers, Sequences, FiniteSets, TLC

(***************************************************************************)
(* Exported media-type constants.                                          *)
(***************************************************************************)
MEDIA_PROBLEM == "application/problem+json"
MEDIA_JSON_SUFFIX == "+json"
MEDIA_JSON == "application/json"
MEDIA_GENERIC_BIN == "application/octet-stream"
MEDIA_TEXT_GROUP == "text/"
MEDIA_IMAGE_GROUP == "image/"
MEDIA_AUDIO_GROUP == "audio/"
MEDIA_VIDEO_GROUP == "video/"
MEDIA_FORM_DATA == "multipart/form-data"
MEDIA_FORM_URL_ENCODED == "application/x-www-form-urlencoded"
ACCEPT_PROBLEM == MEDIA_PROBLEM \o "; q=0.1"

(***************************************************************************)
(* String primitives of the host language.                                 *)
(***************************************************************************)
CharAt(s, i) == SubSeq(s, i, i)

StartsWith(s, p) == Len(s) >= Len(p) /\ SubSeq(s, 1, Len(p)) = p

\* s has p at position i (1-based)
HasAt(s, p, i) == i >= 1 /\ i + Len(p) - 1 <= Len(s) /\ SubSeq(s, i, i + Len(p) - 1) = p

Includes(s, p) == \E i \in 1..(Len(s) + 1) : HasAt(s, p, i)

UpperChars == "ABCDEFGHIJKLMNOPQRSTUVWXYZ"
LowerChars == "abcdefghijklmnopqrstuvwxyz"

IsUpperLetter(c) == \E i \in 1..Len(UpperChars) : CharAt(UpperChars, i) = c
IsLowerLetter(c) == \E i \in 1..Len(LowerChars) : CharAt(LowerChars, i) = c

ToLower(c) ==
  IF IsUpperLetter(c)
  THEN CharAt(LowerChars, CHOOSE i \in 1..Len(UpperChars) : CharAt(UpperChars, i) = c)
  ELSE c

ToUpper(c) ==
  IF IsLowerLetter(c)
  THEN CharAt(UpperChars, CHOOSE i \in 1..Len(LowerChars) : CharAt(LowerChars, i) = c)
  ELSE c

Digits == {"0", "1", "2", "3", "4", "5", "6", "7", "8", "9"}

\* the longest run of [0-9] starting at position i ends before this position
RECURSIVE SkipDigits(_, _)
SkipDigits(s, i) ==
  IF i <= Len(s) /\ CharAt(s, i) \in Digits THEN SkipDigits(s, i + 1) ELSE i

\* (?:\.v[1-9][0-9]*) at position i: the set of positions right after a match
VersionEnds(s, i) ==
  IF HasAt(s, ".v", i) /\ i + 2 <= Len(s)
       /\ CharAt(s, i + 2) \in (Digits \ {"0"})
  THEN (i + 3)..SkipDigits(s, i + 3)
  ELSE {}

\* /application\/vnd\.(.+?)\.errors(?:\.v[1-9][0-9]*)\+json/.test(s)
CUSTOM_ERROR(s) ==
  \E i \in 1..Len(s) : \E k \in 1..Len(s) :
    /\ HasAt(s, "application/vnd.", i)
    /\ k >= i + Len("application/vnd.") + 1
    /\ HasAt(s, ".errors", k)
    /\ \E e \in VersionEnds(s, k + Len(".errors")) : HasAt(s, "+json", e)

\* /application\/vnd\.(.+?)\.problem(?:\.v[1-9][0-9]*)?\+json/.test(s)
CUSTOM_PROBLEM(s) ==
  \E i \in 1..Len(s) : \E k \in 1..Len(s) :
    /\ HasAt(s, "application/vnd.", i)
    /\ k >= i + Len("application/vnd.") + 1
    /\ HasAt(s, ".problem", k)
    /\ \E e \in VersionEnds(s, k + Len(".problem")) \cup {k + Len(".problem")} :
         HasAt(s, "+json", e)

(***************************************************************************)
(* Values of the host language: request bodies and parsed JSON payloads.   *)
(* An object is the sequence of its <<key, value>> properties in insertion *)
(* order.                                                                  *)
(***************************************************************************)
Undefined == [t |-> "undefined"]
Null == [t |-> "null"]
Str(s) == [t |-> "string", v |-> s]
Num(n) == [t |-> "number", v |-> n]
Arr(items) == [t |-> "array", v |-> items]
Obj(props) == [t |-> "object", v |-> props]
FormDataValue == [t |-> "FormData"]

\* ToBoolean
Truthy(x) ==
  CASE x.t \in {"undefined", "null"} -> FALSE
    [] x.t = "string" -> x.v # ""
    [] x.t = "number" -> x.v # 0
    [] OTHER -> TRUE

\* x[key] raises a TypeError on undefined and null
CanGet(x) == x.t \notin {"undefined", "null"}

HasOwnProperty(x, key) ==
  x.t = "object" /\ \E i \in 1..Len(x.v) : x.v[i][1] = key

\* x[key] for a property name that no prototype defines
Get(x, key) ==
  IF HasOwnProperty(x, key)
  THEN x.v[CHOOSE i \in 1..Len(x.v) :
              /\ x.v[i][1] = key
              /\ \A j \in (i + 1)..Len(x.v) : x.v[j][1] # key][2]
  ELSE Undefined

RECURSIVE JoinStrings(_, _)
JoinStrings(strs, sep) ==
  IF Len(strs) = 0 THEN ""
  ELSE IF Len(strs) = 1 THEN strs[1]
  ELSE strs[1] \o sep \o JoinStrings(Tail(strs), sep)

\* the text Array.prototype.join gives one element
RECURSIVE JoinItem(_)
JoinItem(x) ==
  CASE x.t \in {"undefined", "null"} -> ""
    [] x.t = "string" -> x.v
    [] x.t = "number" -> ToString(x.v)
    [] x.t = "array" -> JoinStrings([i \in 1..Len(x.v) |-> JoinItem(x.v[i])], ",")
    [] OTHER -> "[object Object]"

\* Array.prototype.join
Join(items, sep) == JoinStrings([i \in 1..Len(items) |-> JoinItem(items[i])], sep)

RECURSIVE Pad(_)
Pad(n) == IF n <= 0 THEN "" ELSE " " \o Pad(n - 1)

\* JSON.stringify(x, undefined, indent) below the top level, for values whose
\* strings hold no character that needs escaping
RECURSIVE Stringify(_, _, _)
Stringify(x, indent, level) ==
  LET open(b) == IF indent = 0 THEN b ELSE b \o "\n" \o Pad(indent * (level + 1))
      sep == IF indent = 0 THEN "," ELSE ",\n" \o Pad(indent * (level + 1))
      close(b) == IF indent = 0 THEN b ELSE "\n" \o Pad(indent * level) \o b
      colon == IF indent = 0 THEN ":" ELSE ": "
  IN CASE x.t = "string" -> "\"" \o x.v \o "\""
       [] x.t = "number" -> ToString(x.v)
       [] x.t \in {"null", "undefined"} -> "null"
       [] x.t = "array" ->
            IF Len(x.v) = 0 THEN "[]"
            ELSE open("[")
                 \o JoinStrings([i \in 1..Len(x.v) |->
                                   Stringify(x.v[i], indent, level + 1)], sep)
                 \o close("]")
       [] x.t = "object" ->
            IF Len(x.v) = 0 THEN "{}"
            ELSE open("{")
                 \o JoinStrings([i \in 1..Len(x.v) |->
                                   "\"" \o x.v[i][1] \o "\"" \o colon
                                   \o Stringify(x.v[i][2], indent, level + 1)], sep)
                 \o close("}")
       [] OTHER -> "{}"

\* JSON.stringify(x, undefined, indent): undefined stays undefined
JSON_stringify(x, indent) ==
  IF x.t = "undefined" THEN Undefined ELSE Str(Stringify(x, indent, 0))

\* encodeBody(data, contentType, debug); contentType is Undefined or Str(_)
encodeBody(data, contentType, debug) ==
  IF contentType.t = "undefined" THEN data
  ELSE IF Includes(contentType.v, MEDIA_JSON_SUFFIX) \/ StartsWith(contentType.v, MEDIA_JSON)
  THEN JSON_stringify(data, IF debug THEN 2 ELSE 0)
  ELSE data

(***************************************************************************)
(* Header composer.  A header mapping is the sequence of its               *)
(* <<name, value>> properties in insertion order, each name once.          *)
(***************************************************************************)
HasKey(h, k) == \E i \in 1..Len(h) : h[i][1] = k

Lookup(h, k) ==
  IF HasKey(h, k) THEN Str(h[CHOOSE i \in 1..Len(h) : h[i][1] = k][2]) ELSE Undefined

\* h[k] = v: an existing property keeps its place
SetKey(h, k, v) ==
  IF HasKey(h, k)
  THEN [i \in 1..Len(h) |-> IF h[i][1] = k THEN <<k, v>> ELSE h[i]]
  ELSE Append(h, <<k, v>>)

\* { ...a, ...b }
RECURSIVE Spread(_, _)
Spread(a, b) ==
  IF Len(b) = 0 THEN a ELSE Spread(SetKey(a, b[1][1], b[1][2]), Tail(b))

\* letter.toLocaleUpperCase() === letter, on the first character
isUpperCase(value) == ToUpper(CharAt(value, 1)) = CharAt(value, 1)

\* header.replace(/[A-Z]/g, (m) => '-' + m.toLocaleLowerCase())
RECURSIVE KebabCase(_)
KebabCase(s) ==
  IF Len(s) = 0 THEN ""
  ELSE (IF IsUpperLetter(CharAt(s, 1)) THEN "-" \o ToLower(CharAt(s, 1)) ELSE CharAt(s, 1))
       \o KebabCase(SubSeq(s, 2, Len(s)))

\* every key rewritten, the canonical ones too
mapped_alwaysKebab(header) == KebabCase(header)

mapped(header) ==
  IF isUpperCase(header) \/ Includes(header, "-") THEN header ELSE KebabCase(header)

RECURSIVE remapHeaders(_)
remapHeaders(headers) ==
  IF Len(headers) = 0 THEN <<>>
  ELSE LET init == remapHeaders(SubSeq(headers, 1, Len(headers) - 1))
           last == headers[Len(headers)]
       IN IF last[2] # "" THEN SetKey(init, mapped(last[1]), last[2]) ELSE init

\* [accept, AcceptRef.current].join(', '): the inner list joins with ","
composeAccept(accept, defaultAccept) ==
  Join(<<accept, Arr([i \in 1..Len(defaultAccept) |-> Str(defaultAccept[i])])>>, ", ")

\* the merge with the defaults last
composeHeaders_defaultsLast(defaultHeaders, defaultAccept, accept, otherHeaders) ==
  Spread(SetKey(remapHeaders(otherHeaders), "accept", composeAccept(accept, defaultAccept)),
         defaultHeaders)

\* the headers of one call, from the two defaults as they are now
composeHeaders(defaultHeaders, defaultAccept, accept, otherHeaders) ==
  Spread(SetKey(defaultHeaders, "accept", composeAccept(accept, defaultAccept)),
         remapHeaders(otherHeaders))

(***************************************************************************)
(* Responses.  A response the transport hands over is a Response instance  *)
(* (t = "Response") or an object that only looks like one                  *)
(* (t = "ResponseLike").  Its body is what the drain operations give:      *)
(* text() the raw text, json() the parsed payload or a SyntaxError.        *)
(***************************************************************************)
\* response.headers.get(name): null when the header is absent
headers_get(hs, name) ==
  IF HasKey(hs, name) THEN Lookup(hs, name) ELSE Null

\* responseOrError instanceof Response
instanceofResponse(r) == r.t = "Response"

\* new Response(undefined, { status: 400 })
SyntheticResponse ==
  [t |-> "Response", status |-> 400, ok |-> FALSE, statusText |-> "", url |-> "",
   headers |-> <<>>, body |-> [text |-> "", json |-> [t |-> "SyntaxError", message |-> ""]]]

safeResponse(responseOrError) ==
  IF instanceofResponse(responseOrError)
  THEN responseOrError
  ELSE [t |-> "Object",
        status |-> responseOrError.status,
        statusText |-> responseOrError.statusText,
        url |-> responseOrError.url,
        headers |-> responseOrError.headers]

\* isResponseLike(response), on a thrown or returned value
isResponseLike(x) == x.t \in {"Response", "ResponseLike"}

(***************************************************************************)
(* Error taxonomy.  An error value carries its class in t; SuperClass is   *)
(* the class hierarchy the `extends` clauses declare.                      *)
(***************************************************************************)
TaxonomyClasses ==
  {"NoRequestContentType", "NoResponseContentType", "MediaTypeUnsupported",
   "Problem", "StructuredErrors", "JsonError", "TextError"}

SuperClass(c) ==
  CASE c \in TaxonomyClasses -> "FetchMediaError"
    [] c \in {"FetchMediaError", "TypeError", "SyntaxError", "DOMException"} -> "Error"
    [] OTHER -> "Object"

RECURSIVE ClassExtends(_, _)
ClassExtends(c, base) ==
  IF c = base THEN TRUE
  ELSE IF c = "Object" THEN FALSE
  ELSE ClassExtends(SuperClass(c), base)

\* x instanceof Error
instanceofError(x) == ClassExtends(x.t, "Error")

\* the outcome of evaluating `new C(...)`: the instance, or what the constructor threw
Constructed(e) == [thrown |-> FALSE, value |-> e]
Threw(e) == [thrown |-> TRUE, value |-> e]
TypeError == [t |-> "TypeError", message |-> "TypeError"]

new_NoRequestContentType(url, response) ==
  [t |-> "NoRequestContentType",
   message |-> "\n      A request to " \o url
               \o " wanted to include a body, but a Content-Type has not been given. Add a Content-Type.\n    ",
   url |-> url, response |-> response]

new_NoResponseContentType(url, response) ==
  [t |-> "NoResponseContentType",
   message |-> "\n      A request to " \o url \o " yielded a response ("
               \o ToString(response.status) \o ": " \o response.statusText
               \o ") without a Content-Type.\n    ",
   url |-> url, response |-> response]

\* `${x}` of a value that is a string, undefined or null
Interpolate(x) ==
  CASE x.t = "undefined" -> "undefined"
    [] x.t = "null" -> "null"
    [] OTHER -> JoinItem(x)

\* accept and contentType are values: a string, undefined or null
new_MediaTypeUnsupported(url, response, accept, contentType) ==
  [t |-> "MediaTypeUnsupported",
   message |-> "\n      A request to " \o url \o " yielded a response ("
               \o ToString(response.status) \o ": " \o response.statusText
               \o ")\n      with a Content-Type that is unsupported. The original request expected:\n\n      "
               \o Interpolate(accept)
               \o "\n\n      The final response reports as "
               \o (IF Truthy(contentType) THEN contentType.v ELSE "<none>") \o ".\n    ",
   url |-> url, accept |-> accept, contentType |-> contentType, response |-> response]

\* Problem.getError: [data.title, data.detail].join('\n')
Problem_getError(data) ==
  IF ~CanGet(data) THEN Threw(TypeError)
  ELSE Constructed(Join(<<Get(data, "title"), Get(data, "detail")>>, "\n"))

new_Problem(response, data) ==
  LET m == Problem_getError(data)
  IN IF m.thrown THEN m
     ELSE Constructed([t |-> "Problem", message |-> m.value, data |-> data,
                       response |-> response])

\* StructuredErrors.getError: data['errors'].map(({ message }) => message).join(', ')
StructuredErrors_getError(data) ==
  IF ~CanGet(data) THEN Threw(TypeError)
  ELSE LET errors == Get(data, "errors")
       IN IF errors.t # "array" THEN Threw(TypeError)
          ELSE IF \E i \in 1..Len(errors.v) : ~CanGet(errors.v[i]) THEN Threw(TypeError)
          ELSE Constructed(Join([i \in 1..Len(errors.v) |-> Get(errors.v[i], "message")],
                                ", "))

new_StructuredErrors(response, data) ==
  LET m == StructuredErrors_getError(data)
  IN IF m.thrown THEN m
     ELSE Constructed([t |-> "StructuredErrors", message |-> m.value, data |-> data,
                       response |-> response])

\* Object.keys(data), as the template literal prints it
ObjectKeys(data) ==
  CASE data.t = "object" -> JoinStrings([i \in 1..Len(data.v) |-> data.v[i][1]], ",")
    [] data.t = "array" -> JoinStrings([i \in 1..Len(data.v) |-> ToString(i - 1)], ",")
    [] data.t = "string" -> JoinStrings([i \in 1..Len(data.v) |-> ToString(i - 1)], ",")
    [] OTHER -> ""

\* a || b
OrElse(a, b) == IF Truthy(a) THEN a ELSE b

JsonError_getError(data) ==
  IF ~CanGet(data) THEN Threw(TypeError)
  ELSE LET result == OrElse(Get(data, "message"),
                       OrElse(Get(data, "error"),
                         OrElse(Get(data, "details"),
                           OrElse(Get(data, "title"), Get(data, "errors")))))
       IN IF ~Truthy(result)
          THEN Constructed("Tried to extract error from JSON, looking for 'message', 'error', 'details', 'title' and 'errors, buy found "
                           \o ObjectKeys(data) \o ".")
          ELSE IF result.t = "array" THEN Constructed(Join(result.v, ", "))
          ELSE Constructed(JoinItem(result))

new_JsonError(response, data) ==
  LET m == JsonError_getError(data)
  IN IF m.thrown THEN m
     ELSE Constructed([t |-> "JsonError", message |-> m.value, data |-> data,
                       response |-> response])

TextError_getError(response, data) ==
  "[" \o ToString(response.status) \o "] " \o response.url
  \o "\n    Expected a structured error or problem, but got text:\n    " \o data

new_TextError(response, data) ==
  [t |-> "TextError", message |-> TextError_getError(response, data), data |-> data,
   response |-> response]

(***************************************************************************)
(* MediaResponse.                                                          *)
(***************************************************************************)
new_MediaResponse(result, response) == [result |-> result, response |-> response]

MediaResponse_error(error, response) == new_MediaResponse(error, response)

\* ok() with the test inverted
ok_inverted(m) == instanceofError(m.result)

ok(m) == ~instanceofError(m.result)

\* unwrap(): what the call gives, a returned value or a raised one
Returned(v) == [kind |-> "returned", value |-> v]
Raised(v) == [kind |-> "raised", value |-> v]
Pending == [kind |-> "pending"]

unwrap(m) == IF instanceofError(m.result) THEN Raised(m.result) ELSE Returned(m.result)

(***************************************************************************)
(* State.  AcceptRef and HeadersRef are the two process-wide defaults      *)
(* (their .current).  calls[c] is the activation record of call c: where   *)
(* it is suspended (pc), its arguments, its locals, what the transport did  *)
(* (fetch) and, in order, the hooks, transport and drain operations it has *)
(* invoked (events).  latest records what the most recent setter calls    *)
(* were given, as it was then (at first, the initial values), and whether  *)
(* HeadersRef.current is an object its caller passed in and still holds.   *)
(***************************************************************************)
VARIABLES AcceptRef, HeadersRef, calls, latest

vars == <<AcceptRef, HeadersRef, calls, latest>>

CallIds == {"c1", "c2"}

NoValue == [t |-> "none"]

IdleCall ==
  [pc |-> "idle", url |-> "", opts |-> NoValue, headers |-> <<>>,
   request |-> NoValue, fetch |-> "none", thrown |-> NoValue, response |-> NoValue,
   reader |-> "", wrapped |-> Pending, final |-> Pending, events |-> <<>>]

Init ==
  /\ AcceptRef = <<ACCEPT_PROBLEM>>
  /\ HeadersRef = <<>>
  /\ calls = [c \in CallIds |-> IdleCall]
  /\ latest = [accept |-> <<ACCEPT_PROBLEM>>, headers |-> <<>>, shared |-> FALSE]

(***************************************************************************)
(* Global configuration.                                                   *)
(***************************************************************************)
\* AcceptRef.current = accept.slice(): a copy of the rest-parameter array, which is
\* itself a new array, so no list of the caller is kept
setDefaultAccept(accept) ==
  /\ AcceptRef' = accept
  /\ latest' = [latest EXCEPT !.accept = accept]
  /\ UNCHANGED <<HeadersRef, calls>>

\* HeadersRef.current = headers || {}: the caller's object itself, not a copy
setDefaultHeaders(headers) ==
  /\ HeadersRef' = headers
  /\ latest' = [latest EXCEPT !.headers = headers, !.shared = TRUE]
  /\ UNCHANGED <<AcceptRef, calls>>

\* the caller assigns a property of the mapping it passed to setDefaultHeaders, which
\* is the object HeadersRef.current refers to
CallerModifiesHeaders(key, value) ==
  /\ latest.shared
  /\ HeadersRef' = SetKey(HeadersRef, key, value)
  /\ UNCHANGED <<AcceptRef, calls, latest>>

(***************************************************************************)
(* fetchMediaWrapped, segment by segment.                                  *)
(***************************************************************************)
\* the hooks after the destructuring defaults: DEBUG_BEFORE / DEBUG_AFTER under debug
hasBefore(opts) == opts.hooks.before \/ opts.debug
hasAfter(opts) == opts.hooks.after \/ opts.debug

Log(cr, e) == [cr EXCEPT !.events = Append(@, e)]

\* fetchMediaWrapped completes: with a MediaResponse (Returned) or by rejecting (Raised)
Settle(cr, outcome) == [cr EXCEPT !.pc = "settled", !.wrapped = outcome]

\* the body-drain operation a MediaResponse factory or an error branch awaits
DrainOp(reader) ==
  CASE reader \in {"json", "problem", "structured", "jsonError"} -> "json"
    [] reader \in {"text", "urlSearchParams", "textError"} -> "text"
    [] OTHER -> reader

\* the body read twice: as text first, then by the operation of the reader
StartRead_readsTwice(cr, reader) ==
  [Log(Log(cr, "read:text"), "read:" \o DrainOp(reader)) EXCEPT
     !.pc = "reading", !.reader = reader]

StartRead(cr, reader) ==
  [Log(cr, "read:" \o DrainOp(reader)) EXCEPT !.pc = "reading", !.reader = reader]

\* the decoding rule table of the success path, in source order
SuccessRule(opts, responseContentType) ==
  IF (~opts.disableJson /\ Includes(responseContentType, MEDIA_JSON_SUFFIX))
       \/ StartsWith(responseContentType, MEDIA_JSON)
  THEN "json"
  ELSE IF ~opts.disableText /\ StartsWith(responseContentType, MEDIA_TEXT_GROUP)
  THEN "text"
  ELSE IF opts.handleBinary # "off"
          /\ (\/ StartsWith(responseContentType, MEDIA_IMAGE_GROUP)
              \/ StartsWith(responseContentType, MEDIA_AUDIO_GROUP)
              \/ StartsWith(responseContentType, MEDIA_VIDEO_GROUP)
              \/ StartsWith(responseContentType, MEDIA_GENERIC_BIN))
  THEN (IF opts.handleBinary = "array-buffer" THEN "arrayBuffer" ELSE "blob")
  ELSE IF ~opts.disableFormData /\ StartsWith(responseContentType, MEDIA_FORM_DATA)
  THEN "formData"
  ELSE IF ~opts.disableFormUrlEncoded
          /\ StartsWith(responseContentType, MEDIA_FORM_URL_ENCODED)
  THEN "urlSearchParams"
  ELSE "unsupported"

\* the classification rule table of the failure path, in source order
FailureRule(errorContentType) ==
  IF StartsWith(errorContentType, MEDIA_PROBLEM) \/ CUSTOM_PROBLEM(errorContentType)
  THEN "problem"
  ELSE IF CUSTOM_ERROR(errorContentType) THEN "structured"
  ELSE IF StartsWith(errorContentType, MEDIA_JSON) THEN "jsonError"
  ELSE IF StartsWith(errorContentType, MEDIA_TEXT_GROUP) THEN "textError"
  ELSE "unsupported"

\* the catch block on a response-like value whose content type is errorContentType,
\* from the rule table to its first await or its return
ClassifyTyped(held, errorContentType) ==
  LET safe == safeResponse(held.response)
  IN IF FailureRule(errorContentType.v) = "unsupported"
     THEN Settle(held, Returned(MediaResponse_error(
            new_MediaTypeUnsupported(held.url, safe,
              Str(JoinStrings(<<"application/vnd.<vendor>.errors[.v<version>]+json",
                                "application/vnd.<vendor>.problem+json",
                                ACCEPT_PROBLEM>>, ", ")),
              errorContentType), safe)))
     ELSE StartRead(held, FailureRule(errorContentType.v))

\* the catch block without its early bail: errorContentType.startsWith on null raises
ClassifyResponse_noBail(cr, responseOrError) ==
  LET errorContentType == headers_get(responseOrError.headers, "content-type")
      seen == IF hasAfter(cr.opts) THEN Log(cr, "after") ELSE cr
      held == [seen EXCEPT !.response = responseOrError]
  IN IF ~Truthy(errorContentType)
     THEN Settle(held, Raised(TypeError))
     ELSE ClassifyTyped(held, errorContentType)

\* the catch block on a response-like value, up to its first await or its return
ClassifyResponse(cr, responseOrError) ==
  LET errorContentType == headers_get(responseOrError.headers, "content-type")
      safe == safeResponse(responseOrError)
      seen == IF hasAfter(cr.opts) THEN Log(cr, "after") ELSE cr
      held == [seen EXCEPT !.response = responseOrError]
  IN IF ~Truthy(errorContentType)
     THEN Settle(held, Returned(MediaResponse_error(
            new_MediaTypeUnsupported(cr.url, safe,
              Str(JoinStrings(<<"application/vnd.<vendor>.errors[.v<version>]+json",
                                ACCEPT_PROBLEM>>, ", ")),
              errorContentType), safe)))
     ELSE ClassifyTyped(held, errorContentType)

\* the catch block delivering a caught error as a wrapped result
Catch_wrapsErrors(cr, responseOrError) ==
  IF instanceofError(responseOrError)
  THEN Settle(cr, Returned(MediaResponse_error(responseOrError, SyntheticResponse)))
  ELSE IF isResponseLike(responseOrError) THEN ClassifyResponse(cr, responseOrError)
  ELSE Settle(cr, Raised([t |-> "Error", message |-> "Unknown issue occurred."]))

\* catch (responseOrError), up to its first await or its return
Catch(cr, responseOrError) ==
  IF instanceofError(responseOrError) THEN Settle(cr, Raised(responseOrError))
  ELSE IF isResponseLike(responseOrError) THEN ClassifyResponse(cr, responseOrError)
  ELSE Settle(cr, Raised([t |-> "Error",
                          message |-> "Unknown issue occurred. Not an Error or Response, but "
                                      \o Interpolate(responseOrError)]))

\* the status test off by one: a 400 with the ok flag set passes as a success
isFailure_above400(response) == ~response.ok \/ response.status > 400

\* !response.ok || response.status >= 400
isFailure(response) == ~response.ok \/ response.status >= 400

\* the try block after the transport's response arrived, up to its first await
AfterFetch(cr, response) ==
  LET held == [cr EXCEPT !.response = response]
      responseContentType == headers_get(response.headers, "content-type")
      seen == IF hasAfter(cr.opts) THEN Log(held, "after") ELSE held
  IN IF isFailure(response) THEN Catch(cr, response)
     ELSE IF ~Truthy(responseContentType)
     THEN Settle(held, Returned(MediaResponse_error(
            new_NoResponseContentType(cr.url, response), response)))
     ELSE IF SuccessRule(cr.opts, responseContentType.v) = "unsupported"
     THEN Catch(seen, new_MediaTypeUnsupported(cr.url, response, cr.opts.accept,
                                               responseContentType))
     ELSE StartRead(seen, SuccessRule(cr.opts, responseContentType.v))

\* what the awaited drain operation gives: its value, or the error it rejects with
Drain(op, body) ==
  CASE op = "json" ->
         IF body.json.t = "SyntaxError" THEN Raised(body.json) ELSE Returned(body.json)
    [] op = "text" -> Returned(Str(body.text))
    [] op = "arrayBuffer" -> Returned([t |-> "ArrayBuffer", bytes |-> body.text])
    [] op = "blob" -> Returned([t |-> "Blob", bytes |-> body.text])
    [] op = "formData" -> Returned([t |-> "FormData", source |-> body.text])

\* MediaResponse.<factory>(response), after its await
Factory(reader, value, response) ==
  IF reader = "urlSearchParams"
  THEN new_MediaResponse([t |-> "URLSearchParams", source |-> value.v], response)
  ELSE new_MediaResponse(value, response)

\* an error branch of the catch block, after its await
ErrorBranch(cr, value) ==
  LET safe == safeResponse(cr.response)
      made == CASE cr.reader = "problem" -> new_Problem(safe, value)
                [] cr.reader = "structured" -> new_StructuredErrors(safe, value)
                [] cr.reader = "textError" -> Constructed(new_TextError(safe, value.v))
                [] cr.reader = "jsonError" ->
                     IF /\ value.t \in {"object", "array"}
                        /\ HasOwnProperty(value, "errors")
                        /\ Get(value, "errors").t = "array"
                        /\ \/ Len(Get(value, "errors").v) = 0
                           \/ /\ Get(value, "errors").v[1].t \in {"object", "array"}
                              /\ HasOwnProperty(Get(value, "errors").v[1], "message")
                     THEN new_StructuredErrors(safe, value)
                     ELSE new_JsonError(safe, value)
  IN IF made.thrown THEN Settle(cr, Raised(made.value))
     ELSE Settle(cr, Returned(MediaResponse_error(made.value, safe)))

\* the continuation of the awaited body read
AfterRead(cr) ==
  LET got == Drain(DrainOp(cr.reader), cr.response.body)
      inTry == cr.reader \in {"json", "text", "arrayBuffer", "blob", "formData",
                              "urlSearchParams"}
  IN IF inTry
     THEN IF got.kind = "raised" THEN Catch(cr, got.value)
          ELSE Settle(cr, Returned(Factory(cr.reader, got.value, cr.response)))
     ELSE IF got.kind = "raised" THEN Settle(cr, Raised(got.value))
          ELSE ErrorBranch(cr, got.value)

\* the content-type test applied to object bodies only
missingContentType_objectsOnly(body, contentType) ==
  body.t = "object" /\ ~Truthy(contentType) /\ body.t # "FormData"

\* body && !contentType && !(body instanceof FormData)
missingContentType(body, contentType) ==
  Truthy(body) /\ ~Truthy(contentType) /\ body.t # "FormData"

\* the before hook invoked once the transport has been invoked
Enter_hookAfterTransport(url, opts, defaultHeaders, defaultAccept) ==
  LET headers == composeHeaders(defaultHeaders, defaultAccept, opts.accept, opts.otherHeaders)
      contentType == Lookup(headers, "content-type")
      begun == [IdleCall EXCEPT !.url = url, !.opts = opts, !.headers = headers]
      sent == Log(begun, "fetch")
      told == IF hasBefore(opts) THEN Log(sent, "before") ELSE sent
  IN IF missingContentType(opts.body, contentType)
     THEN Settle(begun, Returned(MediaResponse_error(
            new_NoRequestContentType(url, SyntheticResponse), SyntheticResponse)))
     ELSE [told EXCEPT
             !.pc = "fetching",
             !.request = [url |-> url, headers |-> headers, method |-> opts.method,
                          body |-> encodeBody(opts.body, contentType, opts.debug)]]

\* fetchMediaWrapped(url, options) up to `await localFetch(...)` or its early return
Enter(url, opts, defaultHeaders, defaultAccept) ==
  LET headers == composeHeaders(defaultHeaders, defaultAccept, opts.accept, opts.otherHeaders)
      contentType == Lookup(headers, "content-type")
      begun == [IdleCall EXCEPT !.url = url, !.opts = opts, !.headers = headers]
      told == IF hasBefore(opts) THEN Log(begun, "before") ELSE begun
  IN IF missingContentType(opts.body, contentType)
     THEN Settle(told, Returned(MediaResponse_error(
            new_NoRequestContentType(url, SyntheticResponse), SyntheticResponse)))
     ELSE [Log(told, "fetch") EXCEPT
             !.pc = "fetching",
             !.request = [url |-> url, headers |-> headers, method |-> opts.method,
                          body |-> encodeBody(opts.body, contentType, opts.debug)]]

\* fetchMedia(url, options) up to `await fetchMediaWrapped(url, options)`, which runs
\* fetchMediaWrapped to its first await; a direct call of fetchMediaWrapped is this
\* call up to pc = "settled"
Call(c, url, opts) ==
  /\ calls[c].pc = "idle"
  /\ calls' = [calls EXCEPT ![c] = Enter(url, opts, HeadersRef, AcceptRef)]
  /\ UNCHANGED <<AcceptRef, HeadersRef, latest>>

\* the headers of the call composed anew, from the defaults as they are when the
\* transport resolves
FetchReturns_recomposes(c, response) ==
  /\ calls[c].pc = "fetching"
  /\ calls' = [calls EXCEPT ![c] =
       AfterFetch([calls[c] EXCEPT
                     !.fetch = "returned",
                     !.headers = composeHeaders(HeadersRef, AcceptRef, calls[c].opts.accept,
                                                calls[c].opts.otherHeaders)],
                  response)]
  /\ UNCHANGED <<AcceptRef, HeadersRef, latest>>

\* the transport resolves with a response
FetchReturns(c, response) ==
  /\ calls[c].pc = "fetching"
  /\ calls' = [calls EXCEPT ![c] = AfterFetch([calls[c] EXCEPT !.fetch = "returned"], response)]
  /\ UNCHANGED <<AcceptRef, HeadersRef, latest>>

\* the transport rejects with, or throws, a value
FetchRaises(c, thrown) ==
  /\ calls[c].pc = "fetching"
  /\ calls' = [calls EXCEPT ![c] =
       Catch([calls[c] EXCEPT !.fetch = "raised", !.thrown = thrown], thrown)]
  /\ UNCHANGED <<AcceptRef, HeadersRef, latest>>

\* the awaited body read completes
BodyDrained(c) ==
  /\ calls[c].pc = "reading"
  /\ calls' = [calls EXCEPT ![c] = AfterRead(calls[c])]
  /\ UNCHANGED <<AcceptRef, HeadersRef, latest>>

\* fetchMedia after `await fetchMediaWrapped(url, options)`: result.unwrap()
FetchMediaResumes(c) ==
  /\ calls[c].pc = "settled"
  /\ calls' = [calls EXCEPT ![c] =
       [@ EXCEPT !.pc = "done",
                 !.final = IF calls[c].wrapped.kind = "raised" THEN calls[c].wrapped
                           ELSE unwrap(calls[c].wrapped.value)]]
  /\ UNCHANGED <<AcceptRef, HeadersRef, latest>>

(***************************************************************************)
(* Inputs: the arguments callers pass and the responses a transport gives. *)
(***************************************************************************)
\* the longest `errors` array a payload carries
MaxErrors == 2

RECURSIVE SeqsUpTo(_, _)
SeqsUpTo(S, n) ==
  IF n = 0 THEN {<<>>}
  ELSE LET shorter == SeqsUpTo(S, n - 1)
       IN shorter \cup {Append(q, x) : q \in shorter, x \in S}

BaseOptions ==
  [accept |-> Str("application/json"), otherHeaders |-> <<>>, method |-> "GET",
   body |-> Undefined, debug |-> FALSE, hooks |-> [before |-> FALSE, after |-> FALSE],
   disableJson |-> FALSE, disableText |-> FALSE, disableFormData |-> FALSE,
   disableFormUrlEncoded |-> FALSE, handleBinary |-> "off"]

\* every setting of the decoding switches
FlagOptions ==
  {[BaseOptions EXCEPT !.disableJson = dj, !.disableText = dt, !.disableFormData = df,
                       !.disableFormUrlEncoded = du, !.handleBinary = hb] :
     dj \in BOOLEAN, dt \in BOOLEAN, df \in BOOLEAN, du \in BOOLEAN,
     hb \in {"off", "array-buffer", "blob"}}

JsonBody == Obj(<< <<"a", Num(1)>> >>)

RequestBodies == {Undefined, Str(""), Str("raw"), JsonBody, FormDataValue}

RequestHeaders ==
  {<<>>,
   << <<"contentType", "application/json">> >>,
   << <<"content-type", "text/plain">> >>,
   << <<"Content-Type", "application/json">> >>,
   << <<"contentType", "">>, <<"authorization", "Bearer t">> >>}

\* every request shape: body, content-type spelling, hooks, debug
BodyOptions ==
  {[BaseOptions EXCEPT !.method = "POST", !.body = b, !.otherHeaders = h,
                       !.hooks = [before |-> k, after |-> k], !.debug = d] :
     b \in RequestBodies, h \in RequestHeaders, k \in BOOLEAN, d \in BOOLEAN}

ContentTypes ==
  {"application/json", "application/json; charset=utf-8", "application/vnd.acme.v1+json",
   "text/x+json", "text/plain", "image/png", "audio/mpeg", "video/mp4",
   "application/octet-stream", "multipart/form-data; boundary=x",
   "application/x-www-form-urlencoded", "application/pdf",
   "application/problem+json", "application/vnd.acme.problem+json",
   "application/vnd.acme.problem.v2+json", "application/vnd.acme.errors.v1+json",
   "application/vnd.acme.errors.v0+json", "application/vnd.acme.errors+json",
   "application/json; profile=application/vnd.acme.errors.v1+json",
   "text/plain; profile=application/vnd.acme.problem+json"}

ResponseHeaders == {<<>>} \cup {<< <<"content-type", ct>> >> : ct \in ContentTypes}

SyntaxError == [t |-> "SyntaxError", message |-> "Unexpected token"]

\* a body holding the JSON text of payload
JsonTextBody(payload) == [text |-> Stringify(payload, 0, 0), json |-> payload]

\* a body that is no JSON text
PlainBody == [text |-> "oops", json |-> SyntaxError]

ErrorItems ==
  {Obj(<< <<"message", Str("bad")>> >>), Obj(<< <<"message", Str("worse")>> >>),
   Obj(<< <<"code", Num(1)>> >>), Null}

Payloads ==
  {Obj(<< <<"a", Num(1)>> >>),
   Obj(<< <<"detail", Str("not found")>> >>),
   Obj(<< <<"title", Str("Not Found")>>, <<"detail", Str("not found")>> >>),
   Obj(<< <<"message", Str("boom")>> >>),
   Obj(<< <<"errors", Str("oops")>> >>),
   Obj(<<>>), Null, Str("down")}
  \cup {Obj(<< <<"errors", Arr(items)>> >>) : items \in SeqsUpTo(ErrorItems, MaxErrors)}

MakeResponse(t, status, isOk, hs, body) ==
  [t |-> t, status |-> status, ok |-> isOk,
   statusText |-> IF status = 200 THEN "OK" ELSE "Error",
   url |-> "https://example.org/r", headers |-> hs, body |-> body]

\* successful responses, of every content type
SuccessResponses ==
  {MakeResponse("Response", 200, TRUE, hs, b) :
     hs \in ResponseHeaders, b \in {JsonTextBody(JsonBody), PlainBody}}
  \cup {MakeResponse("ResponseLike", 200, TRUE, hs, JsonTextBody(JsonBody)) :
          hs \in {<<>>, << <<"content-type", "application/json">> >>}}

\* failed responses, of every content type; failed by the status alone and by the
\* ok flag alone
FailureResponses ==
  {MakeResponse(t, 404, FALSE, hs, b) :
     t \in {"Response", "ResponseLike"}, hs \in ResponseHeaders,
     b \in {JsonTextBody(JsonBody), PlainBody}}
  \cup {MakeResponse("Response", st[1], st[2], hs, JsonTextBody(JsonBody)) :
          st \in {<<400, TRUE>>, <<399, FALSE>>},
          hs \in {<<>>, << <<"content-type", "application/json">> >>,
                  << <<"content-type", "application/pdf">> >>}}

\* failed responses of the JSON error families, of every payload
PayloadResponses ==
  {MakeResponse("Response", 422, FALSE, << <<"content-type", ct>> >>, JsonTextBody(p)) :
     ct \in {"application/problem+json", "application/vnd.acme.problem.v2+json",
             "application/vnd.acme.errors.v1+json", "application/json"},
     p \in Payloads}

Responses == SuccessResponses \cup FailureResponses \cup PayloadResponses

\* what a transport may raise: an error, a response, anything else
Thrown ==
  {[t |-> "TypeError", message |-> "Failed to fetch"],
   [t |-> "DOMException", message |-> "The operation was aborted."],
   Str("boom"),
   MakeResponse("ResponseLike", 503, FALSE, << <<"content-type", "text/plain">> >>, PlainBody)}

Urls == {"https://example.org/r"}

(***************************************************************************)
(* Specification: one call, of every decoding switch, against every        *)
(* response; the defaults change at any time.                              *)
(***************************************************************************)
Next ==
  \/ \E a \in {<<ACCEPT_PROBLEM>>} : setDefaultAccept(a)
  \/ \E h \in {<<>>, << <<"x-api-key", "k">> >>} : setDefaultHeaders(h)
  \/ \E u \in Urls, o \in FlagOptions \cup {[BaseOptions EXCEPT !.body = JsonBody]} :
       Call("c1", u, o)
  \/ \E r \in Responses : FetchReturns("c1", r)
  \/ \E x \in Thrown : FetchRaises("c1", x)
  \/ BodyDrained("c1")
  \/ FetchMediaResumes("c1")

Spec == Init /\ [][Next]_vars

(***************************************************************************)
(* Specification of the request side: one call of every body and every     *)
(* spelling of the content-type header, per call and in the defaults,      *)
(* against a few responses.                                                *)
(***************************************************************************)
DefaultHeaderSets ==
  {<<>>,
   << <<"x-api-key", "k">> >>,
   << <<"content-type", "application/json">> >>,
   << <<"contentType", "application/json">> >>,
   << <<"Content-Type", "text/plain">> >>}

DefaultAccepts == {<<ACCEPT_PROBLEM>>, <<>>}

RequestResponses ==
  {MakeResponse("Response", 200, TRUE, << <<"content-type", "application/json">> >>, JsonTextBody(JsonBody)),
   MakeResponse("Response", 200, TRUE, <<>>, PlainBody),
   MakeResponse("Response", 404, FALSE, << <<"content-type", "text/plain">> >>, PlainBody)}

NextRequest ==
  \/ \E a \in DefaultAccepts : setDefaultAccept(a)
  \/ \E h \in DefaultHeaderSets : setDefaultHeaders(h)
  \/ \E u \in Urls, o \in BodyOptions : Call("c1", u, o)
  \/ \E r \in RequestResponses : FetchReturns("c1", r)
  \/ \E x \in {Str("boom")} : FetchRaises("c1", x)
  \/ BodyDrained("c1")
  \/ FetchMediaResumes("c1")

SpecRequest == Init /\ [][NextRequest]_vars

(***************************************************************************)
(* Specification of the header composer: one call of every per-call header *)
(* mapping of up to MaxHeaders keys, over defaults that collide with them.  *)
(***************************************************************************)
\* the most keys a per-call header mapping carries
MaxHeaders == 2

HeaderKeys ==
  {"contentType", "ifNoneMatch", "content-type", "Content-Type", "X-Custom", "Accept",
   "authorization"}

HeaderValues == {"", "p"}

\* the keys of a mapping are distinct
DistinctKeys(h) == \A i, j \in 1..Len(h) : h[i][1] = h[j][1] => i = j

HeaderMaps == {h \in SeqsUpTo(HeaderKeys \X HeaderValues, MaxHeaders) : DistinctKeys(h)}

HeaderOptions == {[BaseOptions EXCEPT !.otherHeaders = h] : h \in HeaderMaps}

HeaderDefaults ==
  {<<>>,
   << <<"accept", "text/html">>, <<"authorization", "d">> >>,
   << <<"content-type", "d">>, <<"Accept", "text/html">> >>}

HeaderAccepts == {<<>>, <<"text/plain; q=0.5", ACCEPT_PROBLEM>>}

HeaderResponses ==
  {MakeResponse("Response", 200, TRUE, << <<"content-type", "application/json">> >>,
                JsonTextBody(JsonBody)),
   MakeResponse("Response", 404, FALSE, <<>>, PlainBody)}

NextHeaders ==
  \/ \E a \in HeaderAccepts : setDefaultAccept(a)
  \/ \E h \in HeaderDefaults : setDefaultHeaders(h)
  \/ \E u \in Urls, o \in HeaderOptions : Call("c1", u, o)
  \/ \E r \in HeaderResponses : FetchReturns("c1", r)
  \/ \E x \in {Str("boom")} : FetchRaises("c1", x)
  \/ BodyDrained("c1")
  \/ FetchMediaResumes("c1")

SpecHeaders == Init /\ [][NextHeaders]_vars

(***************************************************************************)
(* Specification of the defaults: setter calls of several values, callers  *)
(* that go on using the mapping they passed, and calls composing from the  *)
(* defaults.                                                               *)
(***************************************************************************)
DefaultsOptions ==
  {[BaseOptions EXCEPT !.otherHeaders = h] :
     h \in {<<>>, << <<"authorization", "p">> >>}}

NextDefaults ==
  \/ \E a \in HeaderAccepts : setDefaultAccept(a)
  \/ \E h \in DefaultHeaderSets : setDefaultHeaders(h)
  \/ \E k \in {"x-api-key", "authorization"}, v \in {"k", "m"} : CallerModifiesHeaders(k, v)
  \/ \E u \in Urls, o \in DefaultsOptions : Call("c1", u, o)
  \/ \E r \in HeaderResponses : FetchReturns("c1", r)
  \/ \E x \in {Str("boom")} : FetchRaises("c1", x)
  \/ BodyDrained("c1")
  \/ FetchMediaResumes("c1")

SpecDefaults == Init /\ [][NextDefaults]_vars

(***************************************************************************)
(* Specification of the order of events: one call, with and without each   *)
(* hook, with and without a body, against every response and every raised  *)
(* value.                                                                  *)
(***************************************************************************)
HookOptions ==
  {[BaseOptions EXCEPT !.hooks = [before |-> b, after |-> a], !.debug = d,
                       !.body = r[1], !.otherHeaders = r[2], !.handleBinary = hb] :
     b \in BOOLEAN, a \in BOOLEAN, d \in BOOLEAN, hb \in {"off", "blob"},
     r \in {<<Undefined, <<>> >>, <<JsonBody, <<>> >>,
            <<JsonBody, << <<"contentType", "application/json">> >> >>}}

NextHooks ==
  \/ \E a \in {<<ACCEPT_PROBLEM>>} : setDefaultAccept(a)
  \/ \E h \in {<<>>, << <<"x-api-key", "k">> >>} : setDefaultHeaders(h)
  \/ \E u \in Urls, o \in HookOptions : Call("c1", u, o)
  \/ \E r \in Responses : FetchReturns("c1", r)
  \/ \E x \in Thrown : FetchRaises("c1", x)
  \/ BodyDrained("c1")
  \/ FetchMediaResumes("c1")

SpecHooks == Init /\ [][NextHooks]_vars

(***************************************************************************)
(* Specification of concurrent use: two calls in flight at once, their     *)
(* segments interleaved with each other and with setter calls.             *)
(***************************************************************************)
ConcurrentAccepts == {<<ACCEPT_PROBLEM>>, <<>>}

ConcurrentDefaults == {<<>>, << <<"x-api-key", "k">> >>}

NextConcurrent ==
  \/ \E a \in ConcurrentAccepts : setDefaultAccept(a)
  \/ \E h \in ConcurrentDefaults : setDefaultHeaders(h)
  \/ \E c \in CallIds, u \in Urls, o \in DefaultsOptions : Call(c, u, o)
  \/ \E c \in CallIds, r \in HeaderResponses : FetchReturns(c, r)
  \/ \E c \in CallIds, x \in {Str("boom")} : FetchRaises(c, x)
  \/ \E c \in CallIds : BodyDrained(c)
  \/ \E c \in CallIds : FetchMediaResumes(c)

SpecConcurrent == Init /\ [][NextConcurrent]_vars

(***************************************************************************)
(* Claims.                                                                 *)
(***************************************************************************)
\* fetchMediaWrapped of this call has completed
Completed(cr) == cr.pc \in {"settled", "done"}

\* the transport returned a response to this call, and it is a success / a failure
GotSuccess(cr) ==
  cr.fetch = "returned" /\ cr.response.ok /\ cr.response.status < 400
GotFailure(cr) ==
  cr.fetch = "returned" /\ (~cr.response.ok \/ cr.response.status >= 400)

\* the content type of the response this call got: a string, or null
ContentTypeOf(cr) == headers_get(cr.response.headers, "content-type")

\* the drain operations this call has invoked
Reads(cr) == {i \in 1..Len(cr.events) : StartsWith(cr.events[i], "read:")}

\* the awaited drain operation of this call rejected
ReadFailed(cr) ==
  cr.reader # "" /\ Drain(DrainOp(cr.reader), cr.response.body).kind = "raised"

\* C1: whenever the transport returned a response (and no body read failed),
\* fetchMediaWrapped completes with a MediaResponse and does not raise; a successful
\* response whose content type matches no enabled decoding rule gives a wrapped
\* MediaTypeUnsupported.
C1_WrappedNeverRaises ==
  \A c \in CallIds :
    LET cr == calls[c]
    IN (cr.fetch = "returned" /\ Completed(cr) /\ ~ReadFailed(cr)) =>
         /\ cr.wrapped.kind = "returned"
         /\ (GotSuccess(cr) /\ Truthy(ContentTypeOf(cr)) /\ cr.reader = "") =>
              cr.wrapped.value.result.t = "MediaTypeUnsupported"

\* the string with every letter in lower case
RECURSIVE LowerCase(_)
LowerCase(s) ==
  IF s = "" THEN "" ELSE ToLower(CharAt(s, 1)) \o LowerCase(SubSeq(s, 2, Len(s)))

\* the header name is a spelling of content-type
NamesContentType(k) == LowerCase(k) \in {"content-type", "contenttype"}

\* the call was given a content type, in some spelling, per call or by the defaults
\* it composed its headers from
GivenContentType(cr) ==
  \/ \E i \in 1..Len(cr.headers) : NamesContentType(cr.headers[i][1])
  \/ \E i \in 1..Len(cr.opts.otherHeaders) :
        NamesContentType(cr.opts.otherHeaders[i][1]) /\ cr.opts.otherHeaders[i][2] # ""

\* the call has a body (a truthy value) that is not multipart form data
HasPlainBody(cr) == Truthy(cr.opts.body) /\ cr.opts.body.t # "FormData"

\* C2: a call with a body that is not multipart form data and with no content type
\* given completes at once with a wrapped NoRequestContentType whose response is a
\* synthetic one of status 400, and the transport is not invoked.
C2_BodyWithoutContentTypeRejected ==
  \A c \in CallIds :
    LET cr == calls[c]
    IN (cr.pc # "idle" /\ HasPlainBody(cr) /\ ~GivenContentType(cr)) =>
         /\ Completed(cr)
         /\ cr.wrapped.kind = "returned"
         /\ cr.wrapped.value.result.t = "NoRequestContentType"
         /\ cr.wrapped.value.result.response.status = 400
         /\ cr.wrapped.value.response = SyntheticResponse
         /\ cr.fetch = "none" /\ cr.request = NoValue
         /\ \A i \in 1..Len(cr.events) : cr.events[i] # "fetch"

\* a call with a raw string body and no content type anywhere, rejected after its
\* before hook ran and without a transport call
C2_Witness ==
  \E c \in CallIds :
    /\ calls[c].pc = "done"
    /\ calls[c].opts.body = Str("raw")
    /\ ~GivenContentType(calls[c])
    /\ calls[c].events = <<"before">>
    /\ calls[c].final.kind = "raised"
    /\ calls[c].final.value.t = "NoRequestContentType"

\* C3: ok() is true exactly when the wrapped result is no error of the taxonomy;
\* unwrap() returns the result when ok() and raises it otherwise; fetchMedia gives what
\* unwrap() of fetchMediaWrapped's MediaResponse gives, and raises what it raised.
C3_OkUnwrapFetchMedia ==
  \A c \in CallIds :
    LET cr == calls[c]
    IN /\ cr.wrapped.kind = "returned" =>
            LET m == cr.wrapped.value
                isError == m.result.t \in TaxonomyClasses
                gives == IF isError THEN Raised(m.result) ELSE Returned(m.result)
            IN /\ ok(m) = ~isError
               /\ unwrap(m) = gives
               /\ cr.pc = "done" => cr.final = gives
       /\ (cr.wrapped.kind = "raised" /\ cr.pc = "done") => cr.final = cr.wrapped

\* a fetchMedia call that raised the taxonomy error its MediaResponse wrapped
C3_Witness ==
  \E c \in CallIds :
    /\ calls[c].pc = "done"
    /\ calls[c].wrapped.kind = "returned"
    /\ ~ok(calls[c].wrapped.value)
    /\ calls[c].final = Raised(calls[c].wrapped.value.result)

\* the decoding rule table as the claims state it: the first rule, in the fixed
\* order, that is enabled and matches
FirstEnabledRule(opts, ct) ==
  IF ~opts.disableJson /\ (Includes(ct, "+json") \/ StartsWith(ct, "application/json"))
  THEN "json"
  ELSE IF ~opts.disableText /\ StartsWith(ct, "text/") THEN "text"
  ELSE IF opts.handleBinary # "off"
          /\ \E g \in {"image/", "audio/", "video/", "application/octet-stream"} :
               StartsWith(ct, g)
  THEN (IF opts.handleBinary = "array-buffer" THEN "arrayBuffer" ELSE "blob")
  ELSE IF ~opts.disableFormData /\ StartsWith(ct, "multipart/form-data") THEN "formData"
  ELSE IF ~opts.disableFormUrlEncoded
          /\ StartsWith(ct, "application/x-www-form-urlencoded")
  THEN "urlSearchParams"
  ELSE ""

\* C4: a successful response with a content type is decoded by the first matching
\* enabled rule of the fixed order; a 200 application/json response gives ok() with
\* the transport's parsed JSON.
C4_FirstEnabledRuleDecodes ==
  \A c \in CallIds :
    LET cr == calls[c]
    IN (GotSuccess(cr) /\ Truthy(ContentTypeOf(cr))) =>
         /\ cr.reader = FirstEnabledRule(cr.opts, ContentTypeOf(cr).v)
         /\ (/\ Completed(cr) /\ ~ReadFailed(cr) /\ ~cr.opts.disableJson
             /\ cr.response.status = 200
             /\ ContentTypeOf(cr).v = "application/json") =>
              /\ cr.wrapped.kind = "returned"
              /\ ok(cr.wrapped.value)
              /\ cr.wrapped.value.result = cr.response.body.json

\* C5: a family whose disable flag is set (or binary handling off) never decodes a
\* successful response of its content types.
C5_DisabledFamilyNotDecoded ==
  \A c \in CallIds :
    LET cr == calls[c]
        ct == ContentTypeOf(cr).v
    IN (GotSuccess(cr) /\ Truthy(ContentTypeOf(cr))) =>
         /\ (cr.opts.disableJson
             /\ (Includes(ct, "+json") \/ StartsWith(ct, "application/json")))
              => cr.reader # "json"
         /\ (cr.opts.disableText /\ StartsWith(ct, "text/")) => cr.reader # "text"
         /\ (cr.opts.disableFormData /\ StartsWith(ct, "multipart/form-data"))
              => cr.reader # "formData"
         /\ (cr.opts.disableFormUrlEncoded
             /\ StartsWith(ct, "application/x-www-form-urlencoded"))
              => cr.reader # "urlSearchParams"
         /\ (cr.opts.handleBinary = "off"
             /\ \E g \in {"image/", "audio/", "video/", "application/octet-stream"} :
                  StartsWith(ct, g))
              => cr.reader \notin {"arrayBuffer", "blob"}

\* C6: a response without a content-type header is never body-read and is returned
\* wrapped: NoResponseContentType for a success, MediaTypeUnsupported with an empty
\* actual content type for a failure.
C6_NoContentTypeIsWrappedUnread ==
  \A c \in CallIds :
    LET cr == calls[c]
    IN (cr.fetch = "returned" /\ ~Truthy(ContentTypeOf(cr))) =>
         /\ Reads(cr) = {}
         /\ Completed(cr)
         /\ cr.wrapped.kind = "returned"
         /\ GotSuccess(cr) => cr.wrapped.value.result.t = "NoResponseContentType"
         /\ GotFailure(cr) =>
              /\ cr.wrapped.value.result.t = "MediaTypeUnsupported"
              /\ ~Truthy(cr.wrapped.value.result.contentType)

\* a failed response without a content type, returned as MediaTypeUnsupported
C6_Witness ==
  \E c \in CallIds :
    /\ GotFailure(calls[c])
    /\ ~Truthy(ContentTypeOf(calls[c]))
    /\ calls[c].wrapped.kind = "returned"
    /\ calls[c].wrapped.value.result.t = "MediaTypeUnsupported"

\* the failure path: no decoding factory of the success path ran
OnFailurePath(cr) ==
  cr.reader \in {"", "problem", "structured", "jsonError", "textError"}

\* C7 as stated: a response with status >= 400 or a false ok flag takes the failure
\* path, never gives a decoded value, and is itself the response of the wrapped error.
C7_FailureSubjectIsResponse ==
  \A c \in CallIds :
    LET cr == calls[c]
    IN (GotFailure(cr) /\ Completed(cr)) =>
         /\ OnFailurePath(cr)
         /\ cr.wrapped.kind = "returned" =>
              /\ ~ok(cr.wrapped.value)
              /\ cr.wrapped.value.result.response = cr.response
              /\ cr.wrapped.value.response = cr.response

\* C7 amended: a response with status >= 400 or a false ok flag takes the failure
\* path and never gives a decoded value; the wrapped error's response carries the
\* returned response's status, statusText, url and headers, and is the returned
\* response itself when that is a Response instance.
C7_FailureSubjectIsResponseOrStandIn ==
  \A c \in CallIds :
    LET cr == calls[c]
    IN (GotFailure(cr) /\ Completed(cr)) =>
         /\ OnFailurePath(cr)
         /\ cr.wrapped.kind = "returned" =>
              LET m == cr.wrapped.value
                  e == m.result.response
              IN /\ ~ok(m)
                 /\ m.response = e
                 /\ e.status = cr.response.status
                 /\ e.statusText = cr.response.statusText
                 /\ e.url = cr.response.url
                 /\ e.headers = cr.response.headers
                 /\ cr.response.t = "Response" => e = cr.response

\* a failed response that is no Response instance, classified against a stand-in
C7_Witness ==
  \E c \in CallIds :
    /\ GotFailure(calls[c])
    /\ calls[c].response.t = "ResponseLike"
    /\ calls[c].wrapped.kind = "returned"
    /\ calls[c].wrapped.value.result.response.t = "Object"

\* the JSON payload of the response this call got (its body parses)
PayloadOf(cr) == cr.response.body.json

\* the content type is of the problem family
IsProblemType(ct) == StartsWith(ct, "application/problem+json") \/ CUSTOM_PROBLEM(ct)

\* C8: a failure response of the problem family is classified Problem, and the
\* Problem's message is the `detail` field of the JSON body.
C8_ProblemMessageIsDetail ==
  \A c \in CallIds :
    LET cr == calls[c]
    IN (/\ GotFailure(cr) /\ Completed(cr) /\ Truthy(ContentTypeOf(cr))
        /\ IsProblemType(ContentTypeOf(cr).v)
        /\ PayloadOf(cr).t = "object"
        /\ Get(PayloadOf(cr), "detail").t = "string") =>
         /\ cr.wrapped.kind = "returned"
         /\ cr.wrapped.value.result.t = "Problem"
         /\ cr.wrapped.value.result.message = Get(PayloadOf(cr), "detail").v

\* the payload is an object whose `errors` is an array of elements that each have a
\* `message` field
EveryErrorHasMessage(p) ==
  /\ p.t = "object"
  /\ Get(p, "errors").t = "array"
  /\ \A i \in 1..Len(Get(p, "errors").v) :
       LET item == Get(p, "errors").v[i]
       IN item.t = "object" /\ \E k \in 1..Len(item.v) : item.v[k][1] = "message"

\* the content type is application/json and of no vendor error family
IsPlainJsonType(ct) ==
  StartsWith(ct, "application/json") /\ ~CUSTOM_ERROR(ct) /\ ~CUSTOM_PROBLEM(ct)

\* C9: a failure response of type application/json (whose body is a JSON object) gives
\* a wrapped StructuredErrors exactly when its payload's `errors` is an array of
\* elements that all have a `message` field (message "" for the empty array), and a
\* wrapped JsonError otherwise.
C9_StructuredIffEveryMessage ==
  \A c \in CallIds :
    LET cr == calls[c]
    IN (/\ GotFailure(cr) /\ Completed(cr) /\ Truthy(ContentTypeOf(cr))
        /\ IsPlainJsonType(ContentTypeOf(cr).v)
        /\ PayloadOf(cr).t = "object") =>
         /\ cr.wrapped.kind = "returned"
         /\ cr.wrapped.value.result.t =
              IF EveryErrorHasMessage(PayloadOf(cr)) THEN "StructuredErrors" ELSE "JsonError"
         /\ PayloadOf(cr) = Obj(<< <<"errors", Arr(<<>>)>> >>) =>
              cr.wrapped.value.result.message = ""

\* the error variants the classification order of the claim allows a content type
VariantsOf(ct) ==
  IF IsProblemType(ct) THEN {"Problem"}
  ELSE IF CUSTOM_ERROR(ct) THEN {"StructuredErrors"}
  ELSE IF StartsWith(ct, "application/json") THEN {"StructuredErrors", "JsonError"}
  ELSE IF StartsWith(ct, "text/") THEN {"TextError"}
  ELSE {"MediaTypeUnsupported"}

\* the `message` fields of the payload's errors, comma-joined
JoinedMessages(p) ==
  LET items == Get(p, "errors").v
  IN JoinStrings([i \in 1..Len(items) |-> Get(items[i], "message").v], ", ")

\* C10: a failed call with a content type (whose body read gives text, or a JSON
\* object) produces exactly one error variant, the one of the first matching rule in
\* the order problem, vendor errors, application/json, text/*, else
\* MediaTypeUnsupported; the message of a vendor StructuredErrors is the comma-joined
\* `message` fields.
C10_OneVariantByFirstRule ==
  \A c \in CallIds :
    LET cr == calls[c]
    IN (/\ GotFailure(cr) /\ Completed(cr) /\ Truthy(ContentTypeOf(cr))
        /\ ~ReadFailed(cr)
        /\ DrainOp(cr.reader) = "json" => PayloadOf(cr).t = "object") =>
         /\ cr.wrapped.kind = "returned"
         /\ cr.wrapped.value.result.t \in VariantsOf(ContentTypeOf(cr).v)
         /\ (CUSTOM_ERROR(ContentTypeOf(cr).v) /\ EveryErrorHasMessage(PayloadOf(cr))) =>
              cr.wrapped.value.result.message = JoinedMessages(PayloadOf(cr))

\* the key is in camelCase form: a lower-case first character and no hyphen
IsCamelKey(k) == IsLowerLetter(CharAt(k, 1)) /\ ~Includes(k, "-")

\* the key is canonical already: it has a hyphen or starts with an upper-case letter
IsCanonicalKey(k) == Includes(k, "-") \/ IsUpperLetter(CharAt(k, 1))

\* the kebab-case lower form of a key, built from its last character backwards
RECURSIVE KebabLower(_)
KebabLower(k) ==
  IF k = "" THEN ""
  ELSE LET last == CharAt(k, Len(k))
       IN KebabLower(SubSeq(k, 1, Len(k) - 1))
          \o (IF IsUpperLetter(last) THEN "-" \o ToLower(last) ELSE last)

\* the header name a per-call key is to give
ComposedName(k) == IF IsCamelKey(k) THEN KebabLower(k) ELSE k

\* the per-call headers of a call that have a value
Valued(cr) == {i \in 1..Len(cr.opts.otherHeaders) : cr.opts.otherHeaders[i][2] # ""}

\* C11: a per-call camelCase key gives its kebab-case lower header name, a key with a
\* hyphen or an upper-case first letter passes through unchanged, and a header with
\* an empty value is absent: the remapped per-call headers are exactly the valued
\* ones under their composed names, and each is in the headers given to the transport.
C11_KeysRemapped ==
  \A c \in CallIds :
    LET cr == calls[c]
        oh == cr.opts.otherHeaders
        remapped == remapHeaders(oh)
    IN cr.pc # "idle" =>
         /\ \A i \in 1..Len(oh) : IsCamelKey(oh[i][1]) \/ IsCanonicalKey(oh[i][1])
         /\ {remapped[j][1] : j \in 1..Len(remapped)}
              = {ComposedName(oh[i][1]) : i \in Valued(cr)}
         /\ \A i \in Valued(cr) :
              /\ HasKey(cr.headers, ComposedName(oh[i][1]))
              /\ (\A j \in Valued(cr) :
                    ComposedName(oh[j][1]) = ComposedName(oh[i][1]) => j <= i)
                   => Lookup(cr.headers, ComposedName(oh[i][1])) = Str(oh[i][2])
         /\ cr.request # NoValue => cr.request.headers = cr.headers
         /\ oh = << <<"contentType", "p">> >> => Lookup(cr.headers, "content-type") = Str("p")

\* a call given ifNoneMatch with a value and Content-Type without one reached the
\* transport with if-none-match and without Content-Type
C11_Witness ==
  \E c \in CallIds :
    /\ calls[c].pc = "fetching"
    /\ calls[c].opts.otherHeaders = << <<"ifNoneMatch", "p">>, <<"Content-Type", "">> >>
    /\ Lookup(calls[c].request.headers, "if-none-match") = Str("p")
    /\ ~HasKey(calls[c].request.headers, "Content-Type")

\* the names of a header mapping
Names(h) == {h[i][1] : i \in 1..Len(h)}

\* the accept value a call is to send: its own first, then the default entries
ExpectedAccept(accept, defaultAccept) ==
  IF Len(defaultAccept) = 0 THEN accept \o ", "
  ELSE accept \o ", " \o JoinStrings(defaultAccept, ",")

\* C12: when a call composes its headers, the set is the merge of the default headers,
\* then the composed accept, then the remapped per-call headers, the later winning a
\* collision; the composed accept is the call's accept value followed by the default
\* accept entries; a default header named accept does not reach the transport.
C12_MergeOrder ==
  [][\A c \in CallIds :
       (calls[c].pc = "idle" /\ calls'[c].pc # "idle") =>
         LET cr == calls'[c]
             perCall == remapHeaders(cr.opts.otherHeaders)
             composed == ExpectedAccept(cr.opts.accept.v, AcceptRef)
         IN /\ Names(cr.headers) = Names(HeadersRef) \cup {"accept"} \cup Names(perCall)
            /\ \A n \in Names(cr.headers) :
                 Lookup(cr.headers, n) =
                   IF n \in Names(perCall) THEN Lookup(perCall, n)
                   ELSE IF n = "accept" THEN Str(composed)
                   ELSE Lookup(HeadersRef, n)
            /\ StartsWith(Lookup(cr.headers, "accept").v, cr.opts.accept.v)
            /\ HasKey(HeadersRef, "accept") =>
                 Lookup(cr.headers, "accept") # Lookup(HeadersRef, "accept")
            /\ cr.request # NoValue => cr.request.headers = cr.headers
    ]_vars

\* a call composed over defaults that carry accept and authorization, with its own
\* authorization: the transport got the call's authorization and the composed accept
C12_Witness ==
  \E c \in CallIds :
    /\ calls[c].pc = "fetching"
    /\ calls[c].opts.otherHeaders = << <<"authorization", "p">> >>
    /\ calls[c].request.headers =
         << <<"accept", "application/json, text/plain; q=0.5,application/problem+json; q=0.1">>,
            <<"authorization", "p">> >>

\* C13: the defaults a new request composes from are what the most recent
\* setDefaultAccept and setDefaultHeaders calls were given (at first one problem+json
\* accept entry and no headers), unmerged, and nothing but a setter call changes them,
\* a caller's later modification of the mapping it passed included.
C13_DefaultsAreLatestSetterArguments ==
  /\ AcceptRef = latest.accept
  /\ HeadersRef = latest.headers

\* the call invoked its after hook or a drain operation
SawResponse(cr) ==
  \E i \in 1..Len(cr.events) : cr.events[i] = "after" \/ StartsWith(cr.events[i], "read:")

\* C14: when the transport raises an error, fetchMediaWrapped raises that same error,
\* unwrapped and unclassified, fetchMedia raises it too, and no after hook or body
\* read follows; when it raises a value that is neither an error nor response-shaped,
\* the call raises a generic Error whose message names the value.
C14_TransportErrorPropagates ==
  \A c \in CallIds :
    LET cr == calls[c]
    IN cr.fetch = "raised" =>
         /\ cr.thrown.t \in {"TypeError", "DOMException"} =>
              /\ cr.pc \in {"settled", "done"}
              /\ cr.wrapped = Raised(cr.thrown)
              /\ cr.pc = "done" => cr.final = Raised(cr.thrown)
              /\ ~SawResponse(cr) /\ cr.reader = ""
         /\ cr.thrown.t = "string" =>
              /\ cr.pc \in {"settled", "done"}
              /\ cr.wrapped.kind = "raised"
              /\ cr.wrapped.value.t = "Error"
              /\ Includes(cr.wrapped.value.message, cr.thrown.v)
              /\ cr.pc = "done" => cr.final = cr.wrapped
              /\ ~SawResponse(cr)

\* a fetchMedia call, with both hooks, whose transport call was cancelled: it
\* raised the transport's error, and the after hook was not invoked
C14_Witness ==
  \E c \in CallIds :
    /\ calls[c].pc = "done"
    /\ calls[c].opts.hooks.after
    /\ calls[c].thrown.t = "DOMException"
    /\ calls[c].final = Raised(calls[c].thrown)
    /\ calls[c].events = <<"before", "fetch">>

\* the content types a call was given, under any spelling of the key
GivenContentTypes(cr) ==
  {cr.headers[i][2] : i \in {j \in 1..Len(cr.headers) : NamesContentType(cr.headers[j][1])}}

\* the content type is of the JSON family
IsJsonFamily(ct) == Includes(ct, "+json") \/ StartsWith(ct, "application/json")

\* C15: a call with a body that was given a content type, as contentType, content-type
\* or Content-Type, per call or by the default headers, is not rejected with
\* NoRequestContentType and reaches the transport, and its body is JSON-encoded when
\* the content type is of the JSON family.
C15_ContentTypeResolvedInAnySpelling ==
  \A c \in CallIds :
    LET cr == calls[c]
    IN (cr.pc # "idle" /\ HasPlainBody(cr) /\ GivenContentTypes(cr) # {}) =>
         /\ cr.request # NoValue
         /\ \E i \in 1..Len(cr.events) : cr.events[i] = "fetch"
         /\ cr.wrapped.kind = "returned" =>
              cr.wrapped.value.result.t # "NoRequestContentType"
         /\ (cr.opts.body.t = "object" /\ \A ct \in GivenContentTypes(cr) : IsJsonFamily(ct)) =>
              cr.request.body \in {JSON_stringify(cr.opts.body, 0), JSON_stringify(cr.opts.body, 2)}

\* the call ended in MediaTypeUnsupported, wrapped or raised
EndedUnsupported(cr) ==
  \/ cr.wrapped.kind = "raised" /\ cr.wrapped.value.t = "MediaTypeUnsupported"
  \/ cr.wrapped.kind = "returned" /\ cr.wrapped.value.result.t = "MediaTypeUnsupported"

\* C16: every call in which the transport returned a response invokes exactly one
\* body-drain operation on it.
C16_ExactlyOneBodyRead ==
  \A c \in CallIds :
    LET cr == calls[c]
    IN (cr.fetch = "returned" /\ Completed(cr)) => Cardinality(Reads(cr)) = 1

\* C16, amended: every call in which the transport returned a response invokes at
\* most one body-drain operation on it: none when the response has no content-type
\* header or the call ends in MediaTypeUnsupported, and exactly one otherwise.
C16_AtMostOneBodyRead ==
  \A c \in CallIds :
    LET cr == calls[c]
    IN cr.fetch = "returned" =>
         /\ Cardinality(Reads(cr)) <= 1
         /\ Completed(cr) =>
              (Cardinality(Reads(cr)) = 0
                 <=> (~Truthy(ContentTypeOf(cr)) \/ EndedUnsupported(cr)))

\* a fetchMedia call whose transport returned a 404 without a content type: it
\* completed, raising, without a body-drain operation
C16_Witness ==
  \E c \in CallIds :
    /\ calls[c].fetch = "returned" /\ calls[c].pc = "done"
    /\ calls[c].response.status = 404
    /\ ~Truthy(ContentTypeOf(calls[c]))
    /\ Reads(calls[c]) = {}
    /\ calls[c].final.kind = "raised"

\* the place of an event in the order before hook, transport, after hook, body read
Rank(e) ==
  CASE e = "before" -> 1
    [] e = "fetch" -> 2
    [] e = "after" -> 3
    [] OTHER -> 4

\* how often the call has invoked e
Count(cr, e) == Cardinality({i \in 1..Len(cr.events) : cr.events[i] = e})

\* C17: the events of a call occur in the order before hook, transport invocation,
\* after hook, body read, each at most once: a call with a before hook has invoked
\* it exactly once, the short-circuit to NoRequestContentType included, and a call
\* without one never; the after hook is invoked only when present and only once the
\* transport call has completed; the transport is invoked at most once.
C17_EventOrder ==
  \A c \in CallIds :
    LET cr == calls[c]
    IN cr.pc # "idle" =>
         /\ \A i, j \in 1..Len(cr.events) : i < j => Rank(cr.events[i]) < Rank(cr.events[j])
         /\ Count(cr, "before") = IF cr.opts.hooks.before \/ cr.opts.debug THEN 1 ELSE 0
         /\ Count(cr, "fetch") <= 1
         /\ Count(cr, "after") <= 1
         /\ Count(cr, "after") = 1 =>
              /\ cr.opts.hooks.after \/ cr.opts.debug
              /\ Count(cr, "fetch") = 1 /\ cr.fetch # "none"
         /\ Reads(cr) # {} => (cr.fetch # "none" /\ Count(cr, "fetch") = 1)
         /\ cr.fetch # "none" => Count(cr, "fetch") = 1

\* a call with both hooks that invoked them around the transport and then read the
\* body as JSON
C17_Witness ==
  \E c \in CallIds :
    /\ calls[c].pc = "done"
    /\ calls[c].events = <<"before", "fetch", "after", "read:json">>

\* C18: a response without a content-type header gives its missing-content-type error
\* without the after hook being invoked, on the success and on the failure path; the
\* after hook is invoked only for responses that have a content type.
C18_NoAfterHookWithoutContentType ==
  \A c \in CallIds :
    LET cr == calls[c]
    IN (cr.fetch = "returned" /\ Completed(cr) /\ ~Truthy(ContentTypeOf(cr))) =>
         /\ cr.wrapped.kind = "returned"
         /\ cr.wrapped.value.result.t \in {"NoResponseContentType", "MediaTypeUnsupported"}
         /\ Count(cr, "after") = 0

\* what a call was given and what its transport did
InputsOf(cr) == <<cr.pc, cr.url, cr.opts, cr.headers, cr.fetch, cr.response, cr.thrown>>

\* a step of the program seen from call c: it composes its headers from both defaults
\* as they are at that step; once composed, its headers and its request stay; a step
\* that changes a default, or that belongs to another call, leaves the call as it is
IsolatedStep(c) ==
  LET cr == calls[c]
      after == calls'[c]
  IN /\ (cr.pc = "idle" /\ after.pc # "idle") =>
          /\ Names(after.headers)
               = Names(HeadersRef) \cup {"accept"} \cup Names(remapHeaders(after.opts.otherHeaders))
          /\ \A n \in Names(HeadersRef) \ ({"accept"} \cup Names(remapHeaders(after.opts.otherHeaders))) :
               Lookup(after.headers, n) = Lookup(HeadersRef, n)
          /\ Lookup(after.headers, "accept")
               = Str(ExpectedAccept(after.opts.accept.v, AcceptRef))
          /\ after.request # NoValue => after.request.headers = after.headers
     /\ cr.pc # "idle" =>
          /\ after.headers = cr.headers
          /\ cr.request # NoValue => after.request = cr.request
          /\ cr.wrapped # Pending => after.wrapped = cr.wrapped
          /\ cr.final # Pending => after.final = cr.final
     /\ (AcceptRef' # AcceptRef \/ HeadersRef' # HeadersRef) => after = cr
     /\ after # cr => \A d \in CallIds \ {c} : calls'[d] = calls[d]

\* C19: under every interleaving of two calls and setter calls, a call composes its
\* headers from the defaults current at that step, both whole; a setter call made
\* while the call is in flight changes neither its outgoing headers nor its result;
\* a step of one call leaves the other untouched, and two calls given the same
\* inputs and the same transport outcome are in the same state.
C19_CallsAreIsolated ==
  /\ [][\A c \in CallIds : IsolatedStep(c)]_vars
  /\ [](\A c, d \in CallIds : InputsOf(calls[c]) = InputsOf(calls[d]) => calls[c] = calls[d])

\* two calls in flight, composed under different default headers, while the
\* defaults have since been set to a third state
C19_Witness ==
  /\ calls["c1"].pc = "fetching" /\ calls["c2"].pc = "reading"
  /\ calls["c1"].opts = calls["c2"].opts
  /\ ~HasKey(calls["c1"].request.headers, "x-api-key")
  /\ HasKey(calls["c2"].request.headers, "x-api-key")
  /\ Lookup(calls["c2"].request.headers, "accept") = Str("application/json, ")
  /\ HeadersRef = <<>> /\ AcceptRef = <<ACCEPT_PROBLEM>>
====
